---- MODULE Spec2Model ----
(***************************************************************************)
(* A model of rust-fetch (src/src/lib.rs): the Fetch client, its           *)
(* configuration, the address builder and the request/response pipeline    *)
(* of the verbs.                                                           *)
(*                                                                         *)
(* Conventions.  Option<T> is a sequence of length at most one: None is    *)
(* <<>> and Some(x) is <<x>>.  A Rust String whose characters matter (an   *)
(* address) is a sequence of one-character strings; header names and       *)
(* values are atomic strings.  A FetchHeaders (HashMap<String, String>) is *)
(* a function from its keys to its values; a reqwest HeaderMap is a        *)
(* function from its names to the sequence of the values of each name.     *)
(***************************************************************************)
EXTENDS Integers, Sequences, FiniteSets, TLC

VARIABLES fetch, call

vars == <<fetch, call>>

None == <<>>

Some(x) == <<x>>

(***************************************************************************)
(* Bounds of the model.                                                    *)
(***************************************************************************)
\* The longest sequence of query parameters a caller supplies.
MaxParams == 2

(***************************************************************************)
(* usize arithmetic.  The index of the last character of the base address  *)
(* is computed as count - 1 in usize.  The model's integers are narrower   *)
(* than 64 bits, so the modulus is narrowed too; it stays above the length *)
(* of every string of the model, which is all the code depends on.         *)
(***************************************************************************)
UsizeModulus == 1073741824

WrappingSub(a, b) == (a - b + UsizeModulus) % UsizeModulus

\* s.chars().nth(i)
CharsNth(s, i) == IF i >= 0 /\ i < Len(s) THEN Some(s[i + 1]) ELSE None

(***************************************************************************)
(* Address builder: Fetch::build_url.                                      *)
(***************************************************************************)
Alpha == {"h", "t", "p", "v", "k", "a", "b"}

\* AppendParams with "&" written after every pair, the last one included.
RECURSIVE AppendParamsTrailing(_, _, _)
AppendParamsTrailing(built_string, params, index) ==
    IF index >= Len(params) THEN built_string
    ELSE LET key == params[index + 1][1]
             value == params[index + 1][2]
             s1 == IF index = 0 THEN built_string \o <<"?">> ELSE built_string
             s2 == s1 \o key \o <<"=">> \o value
             s3 == IF index < Len(params) THEN s2 \o <<"&">> ELSE s2
         IN AppendParamsTrailing(s3, params, index + 1)

\* The loop over params.iter().enumerate(): "?" before the first pair, then
\* key=value, then "&" unless the pair is the last one.
RECURSIVE AppendParams(_, _, _)
AppendParams(built_string, params, index) ==
    IF index >= Len(params) THEN built_string
    ELSE LET key == params[index + 1][1]
             value == params[index + 1][2]
             s1 == IF index = 0 THEN built_string \o <<"?">> ELSE built_string
             s2 == s1 \o key \o <<"=">> \o value
             s3 == IF index < Len(params) - 1 THEN s2 \o <<"&">> ELSE s2
         IN AppendParams(s3, params, index + 1)

\* The string build_url assembles before it parses it.  last_index is the
\* value of built_string.chars().count() - 1.
AssembleUrl(base_url, endpoint, options, last_index) ==
    LET s0 == base_url
        s1 == IF CharsNth(s0, last_index) # Some("/")
                 /\ CharsNth(endpoint, 0) # Some("/")
              THEN s0 \o <<"/">>
              ELSE s0
        s2 == s1 \o endpoint
    IN IF options # None /\ options[1].params # None
       THEN AppendParams(s2, options[1].params[1], 0)
       ELSE s2

\* Whether s starts with a scheme: letters, then ":".
HasScheme(s) ==
    \E i \in 2..Len(s) : s[i] = ":" /\ \A j \in 1..(i - 1) : s[j] \in Alpha

\* Url::parse followed by Url::as_str, on the strings of the model: a string
\* without a scheme is a relative address and is refused; an address whose
\* authority is followed by no path is given the path "/"; empty path
\* segments ("//") are kept as they are.
AuthorityEnd(s) ==
    LET start == (CHOOSE i \in 2..Len(s) :
                     s[i] = ":" /\ \A j \in 1..(i - 1) : s[j] \in Alpha) + 1
        afterSlashes == IF start + 1 <= Len(s) /\ s[start] = "/" /\ s[start + 1] = "/"
                        THEN start + 2 ELSE start
        stops == {i \in afterSlashes..Len(s) : s[i] \in {"/", "?"}}
    IN IF stops = {} THEN Len(s) + 1
       ELSE CHOOSE i \in stops : \A j \in stops : i <= j

ParseUrl(s) ==
    IF ~HasScheme(s) THEN [ok |-> FALSE, url |-> <<>>]
    ELSE LET e == AuthorityEnd(s)
         IN IF e <= Len(s) /\ s[e] = "/"
            THEN [ok |-> TRUE, url |-> s]
            ELSE [ok |-> TRUE,
                  url |-> SubSeq(s, 1, e - 1) \o <<"/">> \o SubSeq(s, e, Len(s))]

\* build_url once count() - 1 has given last_index.
build_url_from(self, endpoint, options, last_index) ==
    LET built_string == AssembleUrl(self.base_url, endpoint, options, last_index)
        parsed == ParseUrl(built_string)
    IN IF parsed.ok
       THEN [kind |-> "Ok", err |-> "", url |-> parsed.url, carried |-> <<>>]
       ELSE [kind |-> "Err", err |-> "InvalidUrl", url |-> <<>>,
             carried |-> built_string]

\* The outcomes of build_url.  With an empty base address count() - 1
\* underflows: a build with overflow checks aborts there, a build without
\* them wraps around and goes on.
build_url(self, endpoint, options) ==
    IF Len(self.base_url) = 0
    THEN {[kind |-> "Panic", err |-> "attempt to subtract with overflow",
           url |-> <<>>, carried |-> <<>>],
          build_url_from(self, endpoint, options, WrappingSub(0, 1))}
    ELSE {build_url_from(self, endpoint, options, Len(self.base_url) - 1)}

(***************************************************************************)
(* Content types (fetch_options.rs) and headers.                           *)
(***************************************************************************)
ContentTypes == {"Json", "TextXml", "ApplicationXml", "UrlEncoded"}

\* ContentType::default()
DefaultContentType == "Json"

\* ContentType::to_string / Display
ContentTypeToString(c) ==
    CASE c = "Json" -> "application/json"
      [] c = "TextXml" -> "text/xml"
      [] c = "ApplicationXml" -> "application/xml"
      [] c = "UrlEncoded" -> "application/x-www-form-urlencoded"

\* ContentType::from_str: an exact match of one canonical string; any other
\* string gives the default.
ContentTypeFromStr(s) ==
    IF \E c \in ContentTypes : ContentTypeToString(c) = s
    THEN CHOOSE c \in ContentTypes : ContentTypeToString(c) = s
    ELSE DefaultContentType

USER_AGENT == "rust-fetch/0.0.0"

CONTENT_TYPE == "content-type"

ACCEPT == "accept"

EmptyHeaders == [k \in {} |-> ""]

\* HashMap::insert
Insert(headers, key, value) ==
    [k \in (DOMAIN headers) \cup {key} |-> IF k = key THEN value ELSE headers[k]]

\* Header names the transport refuses (utils::map_to_reqwest_headers fails).
InvalidHeaderNames == {"bad name"}

Convertible(headers) == (DOMAIN headers) \cap InvalidHeaderNames = {}

\* utils::map_to_reqwest_headers on a convertible map: one value per name.
map_to_reqwest_headers(headers) == [k \in DOMAIN headers |-> <<headers[k]>>]

\* FetchConfig::default()
DefaultConfig ==
    [timeout_ms |-> None, headers |-> None,
     accept |-> DefaultContentType, content_type |-> DefaultContentType]

insert_default_headers(headers, config) ==
    LET h1 == Insert(headers, "user-agent", USER_AGENT)
    IN IF config # None
       THEN Insert(Insert(h1, CONTENT_TYPE, ContentTypeToString(config[1].content_type)),
                   ACCEPT, ContentTypeToString(config[1].accept))
       ELSE h1

\* impl Default for Fetch: insert_default_headers is given Default::default(),
\* which is None for an Option<&FetchConfig>.
default ==
    LET headers == insert_default_headers(EmptyHeaders, None)
    IN [client |-> [default_headers |-> map_to_reqwest_headers(headers),
                    timeout |-> None],
        config |-> Some([DefaultConfig EXCEPT !.headers = Some(headers)]),
        base_url |-> <<>>]

\* Fetch::new.  build_ok: whether ClientBuilder::build succeeds.  value is
\* the client built, absent when new fails.
new(base_url, options, build_ok) ==
    LET opts == IF options = None THEN DefaultConfig ELSE options[1]
        headers0 == IF opts.headers = None THEN EmptyHeaders ELSE opts.headers[1]
        headers == insert_default_headers(headers0, Some(opts))
        options2 == [opts EXCEPT !.headers = Some(headers)]
    IN IF ~Convertible(headers) THEN [ok |-> FALSE, err |-> "Unknown", value |-> None]
       ELSE IF ~build_ok THEN [ok |-> FALSE, err |-> "Unknown", value |-> None]
       ELSE [ok |-> TRUE, err |-> "",
             value |-> Some([client |-> [default_headers |-> map_to_reqwest_headers(headers),
                                         timeout |-> options2.timeout_ms],
                             config |-> Some(options2),
                             base_url |-> base_url])]

\* set_default_headers with the configuration assigned before Fetch::new has
\* succeeded.
set_default_headers_assigning_first(self, headers, build_ok) ==
    LET h0 == IF headers = None THEN EmptyHeaders ELSE headers[1]
        h1 == insert_default_headers(h0, self.config)
        base == IF self.config = None THEN DefaultConfig ELSE self.config[1]
        opts == [base EXCEPT !.headers = Some(h1)]
        new_fetch == new(self.base_url, Some(opts), build_ok)
    IN IF ~new_fetch.ok
       THEN [ok |-> FALSE, err |-> new_fetch.err,
             self |-> [self EXCEPT !.config = Some(opts)]]
       ELSE [ok |-> TRUE, err |-> "",
             self |-> [self EXCEPT !.client = new_fetch.value[1].client,
                                   !.config = new_fetch.value[1].config]]

\* Fetch::set_default_headers: the client after the call, and its result.
set_default_headers(self, headers, build_ok) ==
    LET h0 == IF headers = None THEN EmptyHeaders ELSE headers[1]
        h1 == insert_default_headers(h0, self.config)
        base == IF self.config = None THEN DefaultConfig ELSE self.config[1]
        opts == [base EXCEPT !.headers = Some(h1)]
        new_fetch == new(self.base_url, Some(opts), build_ok)
    IN IF ~new_fetch.ok THEN [ok |-> FALSE, err |-> new_fetch.err, self |-> self]
       ELSE [ok |-> TRUE, err |-> "",
             self |-> [self EXCEPT !.client = new_fetch.value[1].client,
                                   !.config = new_fetch.value[1].config]]

(***************************************************************************)
(* Request building: Fetch::make_body and Fetch::build_request.            *)
(***************************************************************************)
Codecs == {"Json", "Xml", "UrlEncoded"}

\* The codec the match arms of make_body and deserialize_response use.
CodecOf(content_type) ==
    CASE content_type = "Json" -> "Json"
      [] content_type \in {"TextXml", "ApplicationXml"} -> "Xml"
      [] content_type = "UrlEncoded" -> "UrlEncoded"

\* FetchOptions::default(): deserialize_body defaults to true.
DefaultOptions ==
    [headers |-> None, params |-> None, content_type |-> None, accept |-> None,
     deserialize_body |-> TRUE]

\* The content type make_body resolves: the call's, else the client's, else
\* the default.
ResolveContentType(self, options) ==
    IF options # None /\ options[1].content_type # None
    THEN options[1].content_type[1]
    ELSE IF self.config # None THEN self.config[1].content_type
    ELSE DefaultContentType

\* data.serializable: the codecs that can encode the value.
make_body(self, data, options) ==
    LET content_type == ResolveContentType(self, options)
    IN IF CodecOf(content_type) \in data.serializable
       THEN [ok |-> TRUE, err |-> "", kind |-> "",
             body |-> Some([encoded_by |-> CodecOf(content_type),
                            content_type |-> content_type]),
             content_type |-> Some(content_type)]
       ELSE [ok |-> FALSE, err |-> "SerializationError", kind |-> CodecOf(content_type),
             body |-> None, content_type |-> None]

\* HeaderMap::append, which RequestBuilder::header calls: the value is added
\* after the values the name already has.
HeaderAppend(headers, name, value) ==
    [n \in (DOMAIN headers) \cup {name} |->
        IF n = name
        THEN (IF name \in DOMAIN headers THEN headers[name] ELSE <<>>) \o <<value>>
        ELSE headers[n]]

\* The request builder after build_request: its headers and body, and the
\* stages that ran.
build_request(self, data, options) ==
    LET has_headers == options # None /\ options[1].headers # None
        h0 == IF has_headers /\ Convertible(options[1].headers[1])
              THEN map_to_reqwest_headers(options[1].headers[1])
              ELSE EmptyHeaders
        made == make_body(self, data[1], options)
        h1 == IF data # None /\ made.ok
              THEN HeaderAppend(h0, CONTENT_TYPE, ContentTypeToString(made.content_type[1]))
              ELSE h0
        h2 == IF options # None /\ options[1].accept # None
              THEN HeaderAppend(h1, ACCEPT, ContentTypeToString(options[1].accept[1]))
              ELSE h1
    IN IF has_headers /\ ~Convertible(options[1].headers[1])
       THEN [ok |-> FALSE, err |-> "Unknown", kind |-> "", headers |-> EmptyHeaders,
             body |-> None, stages |-> <<"convert_headers">>]
       ELSE IF data # None /\ ~made.ok
       THEN [ok |-> FALSE, err |-> made.err, kind |-> made.kind, headers |-> EmptyHeaders,
             body |-> None, stages |-> <<"convert_headers", "serialize">>]
       ELSE [ok |-> TRUE, err |-> "", kind |-> "", headers |-> h2,
             body |-> IF data # None THEN made.body ELSE None,
             stages |-> IF data # None THEN <<"convert_headers", "serialize">>
                        ELSE <<"convert_headers">>]

\* The headers of the request as the transport sends it: the client's default
\* headers are added for the names the request does not carry.
WireHeaders(client, headers) ==
    [n \in (DOMAIN headers) \cup (DOMAIN client.default_headers) |->
        IF n \in DOMAIN headers THEN headers[n] ELSE client.default_headers[n]]

(***************************************************************************)
(* Response handling: Fetch::check_response_and_return_err,                *)
(* Fetch::deserialize_response and Fetch::response_to_fetch_response.      *)
(***************************************************************************)
\* StatusCode::is_client_error, StatusCode::is_server_error
is_client_error(status) == 400 <= status /\ status < 500

is_server_error(status) == 500 <= status /\ status < 600

\* Client errors alone fail the call.
check_client_errors_only(response) == is_client_error(response.status)

\* TRUE when check_response_and_return_err fails the call.
check_response_and_return_err(response) ==
    is_client_error(response.status) \/ is_server_error(response.status)

\* Header values that are not visible ASCII: HeaderValue::to_str fails.
UnreadableValues == {"\\xff"}

\* RemoteContentType with an unreadable value taken for XML.
RemoteContentTypeUnreadableAsXml(response) ==
    IF response.content_type = None THEN None
    ELSE IF response.content_type[1] \in UnreadableValues THEN Some("TextXml")
    ELSE Some(ContentTypeFromStr(response.content_type[1]))

\* The content type the response declares.  An unreadable value becomes the
\* empty string, and a string from_str does not know becomes the default.
RemoteContentType(response) ==
    IF response.content_type = None THEN None
    ELSE LET string == IF response.content_type[1] \in UnreadableValues
                       THEN ""
                       ELSE response.content_type[1]
         IN Some(ContentTypeFromStr(string))

\* deserialize_response with the bytes handed to the XML codec as they are.
deserialize_response_no_utf8_check(raw_body, content_type) ==
    LET codec == CodecOf(content_type)
    IN IF codec \in raw_body.parses
       THEN [ok |-> TRUE, err |-> "", kind |-> "", invoked |-> <<codec>>]
       ELSE [ok |-> FALSE, err |-> "DeserializationError", kind |-> codec,
             invoked |-> <<codec>>]

\* raw_body.utf8: the bytes are valid UTF-8; raw_body.parses: the codecs
\* that decode them to the target type.  invoked: the codecs that ran.
deserialize_response(raw_body, content_type) ==
    LET codec == CodecOf(content_type)
    IN IF codec = "Xml" /\ ~raw_body.utf8
       THEN [ok |-> FALSE, err |-> "DeserializationError", kind |-> "Unknown",
             invoked |-> <<>>]
       ELSE IF codec \in raw_body.parses
       THEN [ok |-> TRUE, err |-> "", kind |-> "", invoked |-> <<codec>>]
       ELSE [ok |-> FALSE, err |-> "DeserializationError", kind |-> codec,
             invoked |-> <<codec>>]

\* utils::reqwest_headers_to_map: the readable headers of the response.
reqwest_headers_to_map(response) ==
    IF response.content_type # None /\ response.content_type[1] \notin UnreadableValues
    THEN Insert(EmptyHeaders, CONTENT_TYPE, response.content_type[1])
    ELSE EmptyHeaders

\* response_to_fetch_response without the test of deserialize_body at line
\* 300: every body that was read is decoded.
response_to_fetch_response_always_decoding(response, deserialize_body) ==
    LET remote_content_type == RemoteContentType(response)
        raw_body == response.bytes
        decode == raw_body # None
        content_type == IF remote_content_type # None THEN remote_content_type[1]
                        ELSE "Json"
        d == deserialize_response(raw_body[1], content_type)
    IN IF decode /\ ~d.ok
       THEN [kind |-> "Err", err |-> d.err, errKind |-> d.kind, response |-> None,
             invoked |-> d.invoked, stages |-> <<"deserialize">>]
       ELSE [kind |-> "Ok", err |-> "", errKind |-> "",
             response |-> Some([body |-> IF decode THEN Some([decoded_by |-> d.invoked[1]])
                                         ELSE None,
                                raw_body |-> raw_body,
                                status |-> response.status,
                                response_headers |-> reqwest_headers_to_map(response)]),
             invoked |-> IF decode THEN d.invoked ELSE <<>>,
             stages |-> IF decode THEN <<"deserialize">> ELSE <<>>]

\* Lines 280-316 of response_to_fetch_response, after the status check.
\* response.bytes is the result of response.bytes().await: None when reading
\* the body fails.
response_to_fetch_response(response, deserialize_body) ==
    LET remote_content_type == RemoteContentType(response)
        raw_body == response.bytes
        decode == raw_body # None /\ deserialize_body
        content_type == IF remote_content_type # None THEN remote_content_type[1]
                        ELSE "Json"
        d == deserialize_response(raw_body[1], content_type)
    IN IF decode /\ ~d.ok
       THEN [kind |-> "Err", err |-> d.err, errKind |-> d.kind, response |-> None,
             invoked |-> d.invoked, stages |-> <<"deserialize">>]
       ELSE [kind |-> "Ok", err |-> "", errKind |-> "",
             response |-> Some([body |-> IF decode THEN Some([decoded_by |-> d.invoked[1]])
                                         ELSE None,
                                raw_body |-> raw_body,
                                status |-> response.status,
                                response_headers |-> reqwest_headers_to_map(response)]),
             invoked |-> IF decode THEN d.invoked ELSE <<>>,
             stages |-> IF decode THEN <<"deserialize">> ELSE <<>>]

(***************************************************************************)
(* The inputs the operations are given.                                    *)
(***************************************************************************)
HttpH == <<"h", "t", "t", "p", ":", "/", "/", "h">>

\* A base address without a scheme: Url::parse refuses what is built on it.
NoSchemeBase == <<"h">>

\* Base addresses: with and without a final "/", without a scheme, empty.
UrlBases == {HttpH, HttpH \o <<"/">>, NoSchemeBase, <<>>}

UrlEndpoints == {<<"/", "v">>, <<"v">>, <<>>}

ParamPairs == {<< <<"k">>, <<"a">> >>, << <<"b">>, <<"v">> >>}

ParamSeqs == UNION {[1..n -> ParamPairs] : n \in 0..MaxParams}

UrlOptions ==
    {None} \cup {Some([DefaultOptions EXCEPT !.params = p]) :
                    p \in {None} \cup {Some(q) : q \in ParamSeqs}}

\* Header maps a caller supplies: none, an extra header, entries for the
\* forced names, a name the transport refuses.
CallerHeaders ==
    {None,
     Some([k \in {"x-trace"} |-> "1"]),
     Some([k \in {"user-agent", CONTENT_TYPE, ACCEPT} |->
              IF k = "user-agent" THEN "caller-agent" ELSE "text/xml"]),
     Some([k \in {"bad name"} |-> "1"])}

Configs ==
    {None}
    \cup {Some([timeout_ms |-> None, headers |-> h, accept |-> a, content_type |-> c]) :
             h \in CallerHeaders, a \in ContentTypes, c \in ContentTypes}
    \cup {Some([DefaultConfig EXCEPT !.timeout_ms = Some(30)])}

Verbs == {"GET", "POST", "PUT", "PATCH", "DELETE"}

\* Values to send: one every codec encodes, one only the JSON codec encodes.
Datas == {None, Some([serializable |-> Codecs]), Some([serializable |-> {"Json"}])}

CallOptions ==
    {None}
    \cup {Some([headers |-> h, params |-> p, content_type |-> c, accept |-> a,
                deserialize_body |-> d]) :
             h \in CallerHeaders,
             p \in {None, Some(<< << <<"k">>, <<"a">> >> >>)},
             c \in {None} \cup {Some(t) : t \in ContentTypes},
             a \in {None} \cup {Some(t) : t \in ContentTypes},
             d \in BOOLEAN}

Statuses == {200, 399, 400, 404, 500, 599, 600}

RemoteContentTypes ==
    {None} \cup {Some(ContentTypeToString(c)) : c \in ContentTypes}
    \cup {Some("foo/bar")} \cup {Some(v) : v \in UnreadableValues}

\* What reading the body gives: a failure, or bytes one codec decodes, bytes
\* that are text no codec decodes, bytes that are not UTF-8.
BodyReads ==
    {None}
    \cup {Some([utf8 |-> TRUE, parses |-> {c}]) : c \in Codecs}
    \cup {Some([utf8 |-> TRUE, parses |-> {}]), Some([utf8 |-> FALSE, parses |-> {}])}

Responses ==
    [status : Statuses, content_type : RemoteContentTypes, bytes : BodyReads]

(***************************************************************************)
(* State.  fetch: the client.  call: the operation in progress, if any:    *)
(* its inputs, how far it has come and, once it is done, its result.       *)
(***************************************************************************)
IdleCall ==
    [pc |-> "idle", op |-> "", verb |-> "", endpoint |-> <<>>, data |-> None, options |-> None,
     request |-> None, deserialize_body |-> FALSE, response |-> None, sends |-> 0,
     stages |-> <<>>, invoked |-> <<>>, result |-> None]

Init ==
    /\ fetch = default
    /\ call = IdleCall

\* No operation is in progress: the guard of every operation's first step.
Idle == call.pc = "idle"

\* let client = Fetch::new(base_url, options)
New(base_url, options, build_ok) ==
    /\ Idle
    /\ LET r == new(base_url, options, build_ok)
       IN /\ fetch' = IF r.ok THEN r.value[1] ELSE fetch
          /\ call' = [IdleCall EXCEPT !.pc = "done", !.op = "new",
                                      !.result = Some([ok |-> r.ok, err |-> r.err])]

\* SetDefaultHeaders on a client that is shared rather than held by &mut self:
\* it runs whatever the call is doing, and the call goes on.
SetDefaultHeadersShared(headers, build_ok) ==
    LET r == set_default_headers(fetch, headers, build_ok)
    IN /\ fetch' = r.self
       /\ call' = IF Idle
                  THEN [IdleCall EXCEPT !.pc = "done", !.op = "set_default_headers",
                                        !.result = Some([ok |-> r.ok, err |-> r.err])]
                  ELSE call

\* client.set_default_headers(headers): &mut self, so no call is in flight.
SetDefaultHeaders(headers, build_ok) ==
    /\ Idle
    /\ LET r == set_default_headers(fetch, headers, build_ok)
       IN /\ fetch' = r.self
          /\ call' = [IdleCall EXCEPT !.pc = "done", !.op = "set_default_headers",
                                      !.result = Some([ok |-> r.ok, err |-> r.err])]

\* client.build_url(endpoint, options)
BuildUrl(endpoint, options) ==
    /\ Idle
    /\ \E u \in build_url(fetch, endpoint, options) :
          call' = [IdleCall EXCEPT !.pc = "done", !.op = "build_url",
                                   !.endpoint = endpoint, !.options = options,
                                   !.result = Some(u)]
    /\ UNCHANGED fetch

\* The expression of the verbs with build_request evaluated before its
\* argument build_url: the request's error comes before the address's.
request_or_error_request_first(started, u, r) ==
    IF ~r.ok
    THEN [started EXCEPT !.pc = "done", !.stages = r.stages,
                         !.result = Some([kind |-> "Err", err |-> r.err,
                                          errKind |-> r.kind, response |-> None])]
    ELSE IF u.kind = "Panic"
    THEN [started EXCEPT !.pc = "done", !.stages = r.stages \o <<"build_url">>,
                         !.result = Some([kind |-> "Panic", err |-> u.err,
                                          errKind |-> "", response |-> None])]
    ELSE IF u.kind = "Err"
    THEN [started EXCEPT !.pc = "done", !.stages = r.stages \o <<"build_url">>,
                         !.result = Some([kind |-> "Err", err |-> u.err,
                                          errKind |-> "", response |-> None])]
    ELSE [started EXCEPT !.pc = "sending",
                         !.stages = r.stages \o <<"build_url">>,
                         !.request = Some([method |-> started.verb, url |-> u.url,
                                           headers |-> r.headers,
                                           body |-> r.body])]

\* self.build_request(data, Some(&options),
\*                    self.client.post(self.build_url(endpoint, Some(&options))?))?
\* u is the outcome of build_url and r that of build_request.  The arguments
\* are evaluated before the call, so build_url runs, and fails, first.
request_or_error(started, u, r) ==
    IF u.kind = "Panic"
    THEN [started EXCEPT !.pc = "done", !.stages = <<"build_url">>,
                         !.result = Some([kind |-> "Panic", err |-> u.err,
                                          errKind |-> "", response |-> None])]
    ELSE IF u.kind = "Err"
    THEN [started EXCEPT !.pc = "done", !.stages = <<"build_url">>,
                         !.result = Some([kind |-> "Err", err |-> u.err,
                                          errKind |-> "", response |-> None])]
    ELSE IF ~r.ok
    THEN [started EXCEPT !.pc = "done", !.stages = <<"build_url">> \o r.stages,
                         !.result = Some([kind |-> "Err", err |-> r.err,
                                          errKind |-> r.kind, response |-> None])]
    ELSE [started EXCEPT !.pc = "sending",
                         !.stages = <<"build_url">> \o r.stages,
                         !.request = Some([method |-> started.verb, url |-> u.url,
                                           headers |-> r.headers,
                                           body |-> r.body])]

\* Respond when a failure of the transport is answered by sending the request
\* again.
RespondRetrying(outcome) ==
    /\ call.pc = "awaiting"
    /\ call' =
         IF outcome = None
         THEN [call EXCEPT !.sends = @ + 1, !.stages = @ \o <<"send">>]
         ELSE [call EXCEPT !.pc = "received", !.response = outcome]
    /\ UNCHANGED fetch

\* get, post, put, patch, delete up to .send(): the address is built first
\* (it is an argument of build_request), then the request.
Call(verb, endpoint, data, options) ==
    /\ Idle
    /\ verb = "GET" => data = None
    /\ LET opts == IF options = None THEN DefaultOptions ELSE options[1]
           r == build_request(fetch, data, Some(opts))
           started == [IdleCall EXCEPT !.op = "call", !.verb = verb, !.endpoint = endpoint,
                                       !.data = data, !.options = Some(opts),
                                       !.deserialize_body = opts.deserialize_body]
       IN \E u \in build_url(fetch, endpoint, Some(opts)) :
            call' = request_or_error(started, u, r)
    /\ UNCHANGED fetch

\* .send(): the request is handed to the transport and moved into it; of the
\* call's inputs only options.deserialize_body is read afterwards.
Send ==
    /\ call.pc = "sending"
    /\ call' = [call EXCEPT !.pc = "awaiting", !.sends = @ + 1,
                            !.stages = @ \o <<"send">>,
                            !.verb = "", !.endpoint = <<>>, !.data = None,
                            !.options = None, !.request = None]
    /\ UNCHANGED fetch

\* .await on the transport: it fails (outcome None) or answers.
Respond(outcome) ==
    /\ call.pc = "awaiting"
    /\ call' =
         IF outcome = None
         THEN [call EXCEPT !.pc = "done",
                           !.result = Some([kind |-> "Err", err |-> "UnableToSendRequest",
                                            errKind |-> "", response |-> None])]
         ELSE [call EXCEPT !.pc = "received", !.response = outcome]
    /\ UNCHANGED fetch

\* check_response_and_return_err(response).await
Classify ==
    /\ call.pc = "received"
    /\ call' =
         IF check_response_and_return_err(call.response[1])
         THEN [call EXCEPT !.pc = "done", !.stages = @ \o <<"classify">>,
                           !.result = Some([kind |-> "Err", err |-> "NetworkError",
                                            errKind |-> "", response |-> None])]
         ELSE [call EXCEPT !.pc = "classified", !.stages = @ \o <<"classify">>]
    /\ UNCHANGED fetch

\* The rest of response_to_fetch_response: response.bytes().await, then the
\* decoding and the structured response.
Decode ==
    /\ call.pc = "classified"
    /\ LET r == response_to_fetch_response(call.response[1], call.deserialize_body)
       IN call' = [call EXCEPT !.pc = "done",
                               !.stages = @ \o <<"read_body">> \o r.stages,
                               !.invoked = r.invoked,
                               !.result = Some([kind |-> r.kind, err |-> r.err,
                                                errKind |-> r.errKind,
                                                response |-> r.response])]
    /\ UNCHANGED fetch

\* The operation returns and its result goes to the caller.
Return ==
    /\ call.pc = "done"
    /\ call' = IdleCall
    /\ UNCHANGED fetch

\* The clients the verbs are called on: every configuration on an address
\* that parses, and the default configuration on an address without a scheme.
NewInputs == ({HttpH} \X Configs) \cup {<<NoSchemeBase, None>>}

Next ==
    \/ Idle /\ \E i \in NewInputs, b \in BOOLEAN : New(i[1], i[2], b)
    \/ \E h \in CallerHeaders, b \in BOOLEAN : SetDefaultHeaders(h, b)
    \/ Idle /\ \E o \in {None, Some([DefaultOptions EXCEPT !.params = Some(<<>>)])} :
                  BuildUrl(<<"/", "v">>, o)
    \/ Idle /\ \E v \in Verbs, d \in Datas, o \in CallOptions :
                  Call(v, <<"/", "v">>, d, o)
    \/ Send
    \/ call.pc = "awaiting"
         /\ \E outcome \in {None} \cup {Some(r) : r \in Responses} : Respond(outcome)
    \/ Classify
    \/ Decode
    \/ Return

Spec == Init /\ [][Next]_vars

\* The address builder alone, over every base address, endpoint and
\* parameter sequence.
NextUrl ==
    \/ Idle /\ \E b \in UrlBases : New(b, None, TRUE)
    \/ Idle /\ \E e \in UrlEndpoints, o \in UrlOptions : BuildUrl(e, o)
    \/ Return

SpecUrl == Init /\ [][NextUrl]_vars

(***************************************************************************)
(* Properties of the address builder, checked under SpecUrl.               *)
(***************************************************************************)
\* A build_url call has returned an address.
UrlBuilt ==
    call.pc = "done" /\ call.op = "build_url" /\ call.result[1].kind = "Ok"

ParamsOf(options) ==
    IF options = None \/ options[1].params = None THEN <<>> ELSE options[1].params[1]

StripTrailingSlash(s) ==
    IF Len(s) > 0 /\ s[Len(s)] = "/" THEN SubSeq(s, 1, Len(s) - 1) ELSE s

StripLeadingSlash(s) ==
    IF Len(s) > 0 /\ s[1] = "/" THEN SubSeq(s, 2, Len(s)) ELSE s

IsPrefix(p, s) == Len(p) <= Len(s) /\ SubSeq(s, 1, Len(p)) = p

\* The pieces of s between the occurrences of sep.
RECURSIVE Split(_, _)
Split(s, sep) ==
    LET at == {i \in 1..Len(s) : s[i] = sep}
    IN IF at = {} THEN <<s>>
       ELSE LET i == CHOOSE j \in at : \A k \in at : j <= k
            IN <<SubSeq(s, 1, i - 1)>> \o Split(SubSeq(s, i + 1, Len(s)), sep)

\* C1: whatever the base address ends with and the path starts with, the
\* address build_url returns joins them with exactly one "/": it starts with
\* the base without its final "/", then "/", then the path without its
\* first "/".
C1_OneSlashAtJoin ==
    UrlBuilt =>
        IsPrefix(StripTrailingSlash(fetch.base_url) \o <<"/">>
                    \o StripLeadingSlash(call.endpoint),
                 call.result[1].url)

ForcedNames == {"user-agent", CONTENT_TYPE, ACCEPT}

\* C3: the default headers of every client, in its configuration and in its
\* transport, hold the three forced names, and user-agent is USER_AGENT.
C3_ForcedHeadersPresent ==
    /\ fetch.config # None
    /\ fetch.config[1].headers # None
    /\ ForcedNames \subseteq DOMAIN fetch.config[1].headers[1]
    /\ fetch.config[1].headers[1]["user-agent"] = USER_AGENT
    /\ ForcedNames \subseteq DOMAIN fetch.client.default_headers
    /\ fetch.client.default_headers["user-agent"] = <<USER_AGENT>>

\* A request is built and about to be handed to the transport.
Sending == call.pc = "sending"

\* The values the request carries for a header name when it is sent.
SentValues(name) ==
    LET wire == WireHeaders(fetch.client, call.request[1].headers)
    IN IF name \in DOMAIN wire THEN wire[name] ELSE <<>>

\* C4: the content-type header of the request handed to the transport is the
\* resolved send content type: the call's override, else the client's
\* configured content type, else Json; with or without a body.
C4_ContentTypeHeaderIsResolved ==
    Sending =>
        SentValues(CONTENT_TYPE) =
            <<ContentTypeToString(
                IF call.options[1].content_type # None
                THEN call.options[1].content_type[1]
                ELSE IF fetch.config # None THEN fetch.config[1].content_type
                ELSE "Json")>>

\* C5: when a body is sent, the content-type header of the request names the
\* content type whose codec encoded the body, and no other.
C5_BodyCodecMatchesHeader ==
    (Sending /\ call.request[1].body # None) =>
        SentValues(CONTENT_TYPE) =
            <<ContentTypeToString(call.request[1].body[1].content_type)>>

\* C6: when the call options carry an accept override, the accept header of
\* the request handed to the transport is that override.
C6_AcceptOverrideWins ==
    (Sending /\ call.options[1].accept # None) =>
        SentValues(ACCEPT) = <<ContentTypeToString(call.options[1].accept[1])>>

StageRan(stage) == \E i \in 1..Len(call.stages) : call.stages[i] = stage

\* C7: a response with a status in 400..599 ends the call with NetworkError
\* and no codec runs; a response with any other status passes the classifier
\* and the call goes on to the decoding step.
C7_StatusClassification ==
    (call.op = "call" /\ call.response # None /\ StageRan("classify")) =>
        IF call.response[1].status \in 400..599
        THEN /\ call.pc = "done"
             /\ call.result[1].kind = "Err"
             /\ call.result[1].err = "NetworkError"
             /\ call.invoked = <<>>
             /\ ~StageRan("read_body") /\ ~StageRan("deserialize")
        ELSE \/ call.pc = "classified"
             \/ /\ call.pc = "done"
                /\ StageRan("read_body")
                /\ call.result[1].err # "NetworkError"

\* A response with a server-error status, asked to be decoded, has ended
\* the call.
C7_Witness ==
    /\ call.pc = "done" /\ call.response # None
    /\ call.response[1].status = 599
    /\ call.deserialize_body
    /\ call.result[1].err = "NetworkError"

\* The codec a content-type header selects, by the header alone.
CodecForHeader(header) ==
    IF header = Some("application/json") THEN "Json"
    ELSE IF header \in {Some("text/xml"), Some("application/xml")} THEN "Xml"
    ELSE IF header = Some("application/x-www-form-urlencoded") THEN "UrlEncoded"
    ELSE "Json"

\* The response of a verb call has been through the decoding step.
DecodeStepDone == call.pc = "done" /\ call.op = "call" /\ StageRan("read_body")

XmlNotUtf8 ==
    /\ DecodeStepDone
    /\ call.deserialize_body
    /\ call.response[1].content_type \in {Some("text/xml"), Some("application/xml")}
    /\ call.response[1].bytes # None
    /\ ~call.response[1].bytes[1].utf8

C10_NoFailureSwallowed ==
    (call.pc = "done" /\ call.op = "call" /\ call.result[1].kind = "Ok") =>
        /\ call.sends = 1
        /\ call.response # None
        /\ call.response[1].status \notin 400..599
        /\ call.response[1].bytes # None
        /\ call.deserialize_body => call.result[1].response[1].body # None

\* A verb call has returned a structured response.
ReturnedResponse == DecodeStepDone /\ call.result[1].kind = "Ok"

\* C11: in a call that returns a structured response, the decoded body is
\* present exactly when deserialize_body is true and the raw body was read;
\* when it is absent no codec ran.  The status and the raw body are those of
\* the response, a readable content-type header is returned with its value,
\* and a decoded body comes with a raw body.
C11_BodyFollowsFlag ==
    ReturnedResponse =>
        LET response == call.response[1]
            returned == call.result[1].response[1]
            asked == call.deserialize_body /\ response.bytes # None
        IN /\ returned.status = response.status
           /\ returned.raw_body = response.bytes
           /\ (response.content_type # None
                  /\ response.content_type[1] \notin UnreadableValues) =>
                 /\ CONTENT_TYPE \in DOMAIN returned.response_headers
                 /\ returned.response_headers[CONTENT_TYPE] = response.content_type[1]
           /\ ~asked => (returned.body = None /\ call.invoked = <<>>)
           /\ asked => (returned.body # None /\ call.invoked # <<>>)
           /\ returned.body # None => returned.raw_body # None

\* A call that was told not to decode has returned the raw body it read,
\* without a decoded body.
C11_Witness ==
    /\ ReturnedResponse
    /\ ~call.deserialize_body
    /\ call.response[1].bytes # None
    /\ call.result[1].response[1].raw_body # None
    /\ call.result[1].response[1].body = None

\* C12: a verb call hands at most one request to the transport.  A call that
\* ended because the address could not be built, a call-level header could
\* not be converted or the body could not be serialized handed none; a call
\* that ended with a transport failure, an error status or a decoding failure
\* handed exactly one.
C12_AtMostOneSend ==
    /\ call.sends <= 1
    /\ (call.pc = "done" /\ call.op = "call") =>
          LET result == call.result[1]
          IN /\ (result.kind = "Panic"
                    \/ result.err \in {"InvalidUrl", "Unknown", "SerializationError"}) =>
                   (call.sends = 0 /\ ~StageRan("send"))
             /\ result.err \in {"UnableToSendRequest", "NetworkError",
                                "DeserializationError"} =>
                   call.sends = 1
             /\ result.kind = "Ok" => call.sends = 1

\* A call has ended with a failure of the transport after one hand-over.
C12_Witness ==
    /\ call.pc = "done"
    /\ call.op = "call"
    /\ call.result[1].err = "UnableToSendRequest"
    /\ call.sends = 1

\* A verb call has started and has not returned yet.
InFlight == call.op = "call" /\ call.pc \in {"sending", "awaiting", "received", "classified"}

\* The transport of the client was built from the client's configuration.
ConfigConsistent ==
    /\ fetch.config # None
    /\ fetch.config[1].headers # None
    /\ fetch.client.default_headers = map_to_reqwest_headers(fetch.config[1].headers[1])
    /\ fetch.client.timeout = fetch.config[1].timeout_ms

CodeStageOrder ==
    <<"build_url", "convert_headers", "serialize", "send", "classify", "read_body",
      "deserialize">>

StagePosition(stage) == CHOOSE i \in 1..Len(CodeStageOrder) : CodeStageOrder[i] = stage

\* The stage an error belongs to.
StageOfError(err) ==
    CASE err = "InvalidUrl" -> "build_url"
      [] err = "Unknown" -> "convert_headers"
      [] err = "SerializationError" -> "serialize"
      [] err = "UnableToSendRequest" -> "send"
      [] err = "NetworkError" -> "classify"
      [] err = "DeserializationError" -> "deserialize"

\* What would fail in the call whose inputs the state still holds.
AddressUnparsable ==
    \A u \in build_url(fetch, call.endpoint, call.options) : u.kind # "Ok"

HeaderUnconvertible ==
    call.options[1].headers # None /\ ~Convertible(call.options[1].headers[1])

BodyUnserializable ==
    call.data # None /\ ~make_body(fetch, call.data[1], call.options).ok

\* A verb call that has not handed its request over: its inputs are held.
BeforeSend == call.op = "call" /\ call.options # None

C15_FailedUpdateLeavesClient ==
    [][(call.pc = "idle" /\ call'.pc = "done" /\ call'.op = "set_default_headers"
           /\ ~call'.result[1].ok) => fetch' = fetch]_vars

\* set_default_headers has failed on a client built by Fetch::new.
C15_Witness ==
    /\ call.pc = "done"
    /\ call.op = "set_default_headers"
    /\ ~call.result[1].ok
    /\ call.result[1].err = "Unknown"
    /\ fetch.base_url = HttpH
    /\ ConfigConsistent

\* C16: build_url, called directly or by a verb, ends with a parsed address
\* or with InvalidUrl carrying the assembled string; it never aborts.
C16_BuildUrlNeverAborts ==
    (call.pc = "done" /\ call.op = "build_url") =>
        \/ call.result[1].kind = "Ok"
        \/ /\ call.result[1].kind = "Err"
           /\ call.result[1].err = "InvalidUrl"
           /\ call.result[1].carried # <<>>

====
